---- MODULE Spec2Model ----
(***************************************************************************)
(* Model of the proxy worker's fetch handler (src/src/index.js).           *)
(*                                                                         *)
(* One inbound request is handled per behaviour.  The handler is split at  *)
(* its await points: parameter extraction, the key-value reads, the        *)
(* outbound fetch.  JavaScript strings are sequences of tokens, so that    *)
(* template strings and URL resolution are computed, not assumed.          *)
(***************************************************************************)
EXTENDS Integers, Sequences, FiniteSets, TLC

VARIABLES
    request,          \* the inbound Request: method, pathname, search, headers, body
    kv,               \* env.ROUTING_KV: for each key, the stored value or none
    pc,               \* position of the handler
    customerId,       \* let customerId   (index.js:21)
    warehouseId,      \* let warehouseId  (index.js:21)
    targetKey,        \* let targetKey    (index.js:79)
    targetEndpoint,   \* const targetEndpoint (index.js:100)
    pathMapping,      \* const pathMapping (index.js:113)
    kvReads,          \* the keys passed to env.ROUTING_KV.get, in order
    outbound,         \* the requests passed to fetch(), in order
    backendResponse,  \* what fetch() resolved to
    thrown,           \* message of the error that reached the outer catch
    response          \* the Response the handler returned

vars == <<request, kv, pc, customerId, warehouseId, targetKey, targetEndpoint,
          pathMapping, kvReads, outbound, backendResponse, thrown, response>>

-----------------------------------------------------------------------------
(* JavaScript values *)

\* undefined and null, as read from a missing property / a missing query parameter
Undefined == "<undefined>"
Null == "<null>"

\* a variant of Falsy that takes the empty string for a value
Falsy_EmptyIsTruthy(x) == x \in {Undefined, Null}

\* !x for a value that is a string, undefined or null
Falsy(x) == x \in {Undefined, Null, ""}

\* the result of KV get(): null, or the stored string
NullValue == [found |-> FALSE, v |-> <<>>]
Value(s) == [found |-> TRUE, v |-> s]

\* !x for the result of a KV get(): null and the empty string are falsy
FalsyValue(r) == ~r.found \/ r.v = <<>>

\* s contains sub as a contiguous run of tokens
Contains(s, sub) ==
    \E i \in 1..(Len(s) - Len(sub) + 1) : SubSeq(s, i, i + Len(sub) - 1) = sub

-----------------------------------------------------------------------------
(* Inputs *)

Methods == {"GET", "POST", "DELETE", "PUT"}

\* url.pathname of the inbound request; it always starts with "/"
SourcePaths == { <<"/", "api">>,
                 <<"/", "post">>,
                 <<"/", "/", "evil.example", "/", "x">> }

\* url.search of the inbound request ("" or "?...") and what
\* url.searchParams.get returns for it
QueryToks == { "?customerId=C1", "?customerId=C1&warehouseId=W1",
               "?customerId=C1&warehouseId=W2", "?warehouseId=W1",
               "?customerId=&warehouseId=W1", "?customerId=C1&warehouseId=",
               "?x=1" }

Searches == { <<>> } \cup { <<q>> : q \in QueryToks }

SearchParam(search, name) ==
    IF search = <<>> THEN Null
    ELSE LET q == search[1] IN
         IF name = "customerId"
         THEN CASE q \in {"?customerId=C1", "?customerId=C1&warehouseId=W1",
                          "?customerId=C1&warehouseId=W2",
                          "?customerId=C1&warehouseId="} -> "C1"
                [] q = "?customerId=&warehouseId=W1" -> ""
                [] OTHER -> Null
         ELSE CASE q \in {"?customerId=C1&warehouseId=W1", "?warehouseId=W1",
                          "?customerId=&warehouseId=W1"} -> "W1"
                [] q = "?customerId=C1&warehouseId=W2" -> "W2"
                [] q = "?customerId=C1&warehouseId=" -> ""
                [] OTHER -> Null

\* The body of the inbound request, by what JSON parsing makes of it.
\*   json : "invalid" (request.json() rejects), or the kind of value parsed
\*   hasData / data : the body object's `data` property (a string)
\*   the nested text is "" , not JSON, the JSON text null, or an object whose
\*   customerId / warehouseId properties are given (Undefined when missing)
Body(json, hasData, data, c, w) ==
    [json |-> json, hasData |-> hasData, data |-> data, customerId |-> c, warehouseId |-> w]

NoBody == Body("invalid", FALSE, "", Undefined, Undefined)

Bodies == { NoBody,
            Body("null",   FALSE, "", Undefined, Undefined),
            Body("number", FALSE, "", Undefined, Undefined),
            Body("object", FALSE, "", Undefined, Undefined),
            Body("object", TRUE,  "", Undefined, Undefined),
            Body("object", TRUE,  "not valid json{", Undefined, Undefined),
            Body("object", TRUE,  "null", Undefined, Undefined),
            Body("object", TRUE,  "object", Undefined, Undefined),
            Body("object", TRUE,  "object", Undefined, "W1"),
            Body("object", TRUE,  "object", "", "W1"),
            Body("object", TRUE,  "object", "C1", Undefined),
            Body("object", TRUE,  "object", "C1", "W1"),
            Body("object", TRUE,  "object", "C1", "W2") }

Requests ==
    { [method |-> "POST", pathname |-> p, search |-> s, headers |-> "h", body |-> b] :
        p \in SourcePaths, s \in { <<>>, <<"?x=1">> }, b \in Bodies }
    \cup
    { [method |-> m, pathname |-> p, search |-> s, headers |-> "h", body |-> NoBody] :
        m \in Methods \ {"POST"}, p \in SourcePaths, s \in Searches }

-----------------------------------------------------------------------------
(* The key-value store *)

Customers == {"C1"}
Warehouses == {"W1"}
Targets == { <<"T1">>, <<"T2">> }

\* `route:${customerId}:${warehouseId}`
WarehouseRouteKey(c, w) == <<"route:", c, ":", w>>

\* `route:${customerId}`
CustomerRouteKey(c) == <<"route:", c>>

\* `endpoint:${targetKey}`
EndpointKey(t) == <<"endpoint:">> \o t

\* `path:${targetKey}:${sourcePath}`
PathKey(t, sourcePath) == <<"path:">> \o t \o <<":">> \o sourcePath

\* base URLs an administrator may store: a bare origin, an origin with a
\* trailing slash, an origin with a path, and a string that is not a URL
BareOrigin == <<"https://", "api1.example">>
Endpoints == { BareOrigin,
               <<"https://", "api1.example", "/">>,
               <<"https://", "api1.example", "/", "v1">>,
               <<"api1.example">> }

MappedPath == <<"/", "webhook">>

RouteKeys == { WarehouseRouteKey(c, w) : c \in Customers, w \in Warehouses }
             \cup { CustomerRouteKey(c) : c \in Customers }
EndpointKeys == { EndpointKey(t) : t \in Targets }
PathKeys == { PathKey(t, <<"/", "api">>) : t \in Targets }

\* the stores: every stored value is a non-empty string
Stores ==
    { r @@ e @@ p :
        r \in [RouteKeys -> {NullValue} \cup { Value(t) : t \in Targets }],
        e \in { f \in [EndpointKeys -> {NullValue} \cup { Value(u) : u \in Endpoints }] :
                  f[EndpointKey(<<"T2">>)] \in {NullValue, Value(BareOrigin)} },
        p \in [PathKeys -> {NullValue, Value(MappedPath)}] }

\* the store holds an entry under key
Present(key) == key \in DOMAIN kv /\ kv[key].found

\* env.ROUTING_KV.get(key) when the read succeeds: the value, or null
Get(key) == IF key \in DOMAIN kv THEN kv[key] ELSE NullValue

-----------------------------------------------------------------------------
(* URLs: new URL(input, base) and URL.toString(), on token strings.         *)
(* Dot segments and percent-encoding are not modelled.                      *)

Scheme == "https://"

IsQueryTok(t) == t \in QueryToks

\* index of the first query token of s, or Len(s) + 1
RECURSIVE QueryStart(_, _)
QueryStart(s, i) ==
    IF i > Len(s) THEN i
    ELSE IF IsQueryTok(s[i]) THEN i
    ELSE QueryStart(s, i + 1)

PathPart(s) == SubSeq(s, 1, QueryStart(s, 1) - 1)
QueryPart(s) == SubSeq(s, QueryStart(s, 1), Len(s))

InvalidURL == [valid |-> FALSE, host |-> "", pathname |-> <<>>, search |-> <<>>]

URLOf(host, path, search) ==
    [valid |-> TRUE, host |-> host,
     pathname |-> IF path = <<>> THEN <<"/">> ELSE path, search |-> search]

IsHostTok(t) == t \notin {Scheme, "/"} /\ ~IsQueryTok(t)

\* an absolute URL string: scheme, host, then an optional path and query
ParseAbsolute(s) ==
    IF Len(s) >= 2 /\ s[1] = Scheme /\ IsHostTok(s[2])
       /\ (Len(s) >= 3 => (s[3] = "/" \/ IsQueryTok(s[3])))
    THEN LET rest == SubSeq(s, 3, Len(s)) IN URLOf(s[2], PathPart(rest), QueryPart(rest))
    ELSE InvalidURL

\* the path up to and including its last "/"
RECURSIVE DirOf(_)
DirOf(path) ==
    IF path = <<>> THEN <<"/">>
    ELSE IF path[Len(path)] = "/" THEN path
    ELSE DirOf(SubSeq(path, 1, Len(path) - 1))

\* a variant of NewURL that appends the reference to the base's path
NewURL_KeepsBasePath(input, base) ==
    LET b == ParseAbsolute(base) IN
    IF ~b.valid THEN InvalidURL
    ELSE URLOf(b.host, b.pathname \o PathPart(input), QueryPart(input))

\* new URL(input, base): base is parsed first; input is then an absolute URL,
\* a scheme-relative ("//host/...") reference, a path-absolute ("/...")
\* reference, a query-only reference, or a path-relative reference
NewURL(input, base) ==
    LET b == ParseAbsolute(base) IN
    IF ~b.valid THEN InvalidURL
    ELSE IF input = <<>> THEN b
    ELSE IF input[1] = Scheme THEN ParseAbsolute(input)
    ELSE IF Len(input) >= 2 /\ input[1] = "/" /\ input[2] = "/"
         THEN ParseAbsolute(<<Scheme>> \o SubSeq(input, 3, Len(input)))
    ELSE IF input[1] = "/" THEN URLOf(b.host, PathPart(input), QueryPart(input))
    ELSE IF IsQueryTok(input[1]) THEN URLOf(b.host, b.pathname, input)
    ELSE URLOf(b.host, DirOf(b.pathname) \o PathPart(input), QueryPart(input))

\* targetUrl.toString()
Serialize(u) == <<Scheme, u.host>> \o u.pathname \o u.search

-----------------------------------------------------------------------------
(* Responses *)

JsonHeaders == "Content-Type: application/json"

NoResponse == [status |-> 0, statusText |-> "", headers |-> "", body |-> <<>>]

\* new Response(JSON.stringify({ error: msg }), { status, headers: JSON })
ErrorResponse(status, msg) ==
    [status |-> status, statusText |-> "", headers |-> JsonHeaders,
     body |-> <<"{\"error\":\"">> \o msg \o <<"\"}">>]

InvalidBodyResponse == ErrorResponse(400, <<"Invalid or missing JSON body in request">>)

MissingDataResponse == ErrorResponse(400, <<"Missing data field in request body">>)

InvalidDataResponse == ErrorResponse(400, <<"Invalid JSON in data field">>)

\* a variant of MethodNotSupportedResponse that leaves the method out
MethodNotSupportedResponse_NoName(method) ==
    ErrorResponse(405, <<"Method not supported">>)

MethodNotSupportedResponse(method) ==
    ErrorResponse(405, <<"Method ", method, " not supported">>)

MissingCustomerResponse ==
    ErrorResponse(400, <<"Missing required parameter: customerId">>)

NoRoutingResponse(c, w) ==
    ErrorResponse(404, <<"No routing found for customerId: ", c>>
                       \o (IF Falsy(w) THEN <<>> ELSE <<", warehouseId: ", w>>))

\* a variant of NoEndpointResponse that reports an internal error
NoEndpointResponse_As500(t) ==
    ErrorResponse(500, <<"No endpoint found for target: ">> \o t)

NoEndpointResponse(t) ==
    ErrorResponse(404, <<"No endpoint found for target: ">> \o t)

\* a variant of InternalErrorResponse that hides the error's message
InternalErrorResponse_NoMessage(message) ==
    [status |-> 500, statusText |-> "", headers |-> JsonHeaders,
     body |-> <<"{\"error\":\"", "Internal server error", "\"}">>]

\* the outer catch: status 500, the error's message in the body
InternalErrorResponse(message) ==
    [status |-> 500, statusText |-> "", headers |-> JsonHeaders,
     body |-> <<"{\"error\":\"", "Internal server error", "\",\"message\":\"",
                message, "\"}">>]

\* a variant of Relay that answers 200 whatever the backend's status
Relay_AlwaysOk(r) ==
    [status |-> 200, statusText |-> "OK", headers |-> r.headers, body |-> r.body]

\* new Response(response.body, { status, statusText, headers })
Relay(r) ==
    [status |-> r.status, statusText |-> r.statusText, headers |-> r.headers,
     body |-> r.body]

\* what a backend may answer
BackendResponses ==
    { [status |-> 200, statusText |-> "OK", headers |-> "backend-headers", body |-> <<"payload">>],
      [status |-> 204, statusText |-> "No Content", headers |-> "backend-headers", body |-> <<>>],
      [status |-> 404, statusText |-> "Not Found", headers |-> "backend-headers", body |-> <<"missing">>],
      [status |-> 500, statusText |-> "Internal Server Error", headers |-> "backend-headers", body |-> <<"boom">>] }

\* messages of the errors that reach the outer catch
NoError == ""
NullBodyError == "Cannot read properties of null (reading 'data')"
InvalidURLError == "Invalid URL"
KVError == "KV GET failed"
FetchError == "Network connection lost"

-----------------------------------------------------------------------------
(* The handler *)

Init ==
    /\ request \in Requests
    /\ kv \in Stores
    /\ pc = "extract"
    /\ customerId = Undefined
    /\ warehouseId = Undefined
    /\ targetKey = NullValue
    /\ targetEndpoint = NullValue
    /\ pathMapping = NullValue
    /\ kvReads = <<>>
    /\ outbound = <<>>
    /\ backendResponse = NoResponse
    /\ thrown = NoError
    /\ response = NoResponse

\* return new Response(...)
Return(r) ==
    /\ pc' = "done"
    /\ response' = r
    /\ thrown' = NoError

\* an error reaches catch (error) at index.js:138
Catch(message) ==
    /\ pc' = "done"
    /\ response' = InternalErrorResponse(message)
    /\ thrown' = message

\* a variant of Validate that reads the warehouse-specific route even when
\* the request carries no warehouseId
Validate_AlwaysWarehouse(c, w) ==
    /\ customerId' = c
    /\ warehouseId' = w
    /\ IF Falsy(c) THEN Return(MissingCustomerResponse)
       ELSE /\ pc' = "routeW"
            /\ UNCHANGED <<response, thrown>>

\* index.js:67-81: validate customerId, then go to the first route read
Validate(c, w) ==
    /\ customerId' = c
    /\ warehouseId' = w
    /\ IF Falsy(c) THEN Return(MissingCustomerResponse)
       ELSE /\ pc' = IF Falsy(w) THEN "routeC" ELSE "routeW"
            /\ UNCHANGED <<response, thrown>>

\* index.js:18-81: parameter extraction by method
ExtractParams ==
    /\ pc = "extract"
    /\ LET b == request.body IN
       IF request.method = "POST"
       THEN IF b.json = "invalid"
            THEN Return(InvalidBodyResponse) /\ UNCHANGED <<customerId, warehouseId>>
            ELSE IF b.json = "null"
            THEN Catch(NullBodyError) /\ UNCHANGED <<customerId, warehouseId>>
            ELSE IF b.json # "object" \/ ~b.hasData \/ b.data = ""
            THEN Return(MissingDataResponse) /\ UNCHANGED <<customerId, warehouseId>>
            ELSE IF b.data # "object"
            THEN Return(InvalidDataResponse) /\ UNCHANGED <<customerId, warehouseId>>
            ELSE Validate(b.customerId, b.warehouseId)
       ELSE IF request.method = "GET"
       THEN Validate(SearchParam(request.search, "customerId"),
                     SearchParam(request.search, "warehouseId"))
       ELSE Return(MethodNotSupportedResponse(request.method))
            /\ UNCHANGED <<customerId, warehouseId>>
    /\ UNCHANGED <<request, kv, targetKey, targetEndpoint, pathMapping, kvReads,
                   outbound, backendResponse>>

\* a variant of LookupWarehouseRoute that reads the customer-level route
\* next whether or not the warehouse-specific read found a target
LookupWarehouseRoute_AlwaysFallsBack ==
    /\ pc = "routeW"
    /\ LET key == WarehouseRouteKey(customerId, warehouseId) IN
       /\ kvReads' = Append(kvReads, key)
       /\ targetKey' = Get(key)
       /\ pc' = "routeC"
    /\ UNCHANGED <<request, kv, customerId, warehouseId, targetEndpoint, pathMapping,
                   outbound, backendResponse, thrown, response>>

\* a variant of LookupWarehouseRoute that answers 404 on a warehouse-specific
\* miss instead of falling back to the customer-level route
LookupWarehouseRoute_NoFallback ==
    /\ pc = "routeW"
    /\ LET key == WarehouseRouteKey(customerId, warehouseId) IN
       /\ kvReads' = Append(kvReads, key)
       /\ targetKey' = Get(key)
       /\ IF FalsyValue(Get(key))
          THEN Return(NoRoutingResponse(customerId, warehouseId))
          ELSE pc' = "endpoint" /\ UNCHANGED <<response, thrown>>
    /\ UNCHANGED <<request, kv, customerId, warehouseId, targetEndpoint, pathMapping,
                   outbound, backendResponse>>

\* index.js:81-83, then 86 and 90: the warehouse-specific route read returned
LookupWarehouseRoute ==
    /\ pc = "routeW"
    /\ LET key == WarehouseRouteKey(customerId, warehouseId) IN
       /\ kvReads' = Append(kvReads, key)
       /\ targetKey' = Get(key)
       /\ pc' = IF FalsyValue(Get(key)) THEN "routeC" ELSE "endpoint"
    /\ UNCHANGED <<request, kv, customerId, warehouseId, targetEndpoint, pathMapping,
                   outbound, backendResponse, thrown, response>>

\* index.js:86-97: the customer-level route read returned
LookupCustomerRoute ==
    /\ pc = "routeC"
    /\ LET key == CustomerRouteKey(customerId) IN
       /\ kvReads' = Append(kvReads, key)
       /\ targetKey' = Get(key)
       /\ IF FalsyValue(Get(key))
          THEN Return(NoRoutingResponse(customerId, warehouseId))
          ELSE pc' = "endpoint" /\ UNCHANGED <<response, thrown>>
    /\ UNCHANGED <<request, kv, customerId, warehouseId, targetEndpoint, pathMapping,
                   outbound, backendResponse>>

\* a variant of LookupEndpoint that goes on to the path read without
\* checking that an endpoint was found
LookupEndpoint_NoCheck ==
    /\ pc = "endpoint"
    /\ LET key == EndpointKey(targetKey.v) IN
       /\ kvReads' = Append(kvReads, key)
       /\ targetEndpoint' = Get(key)
       /\ pc' = "path"
    /\ UNCHANGED <<request, kv, customerId, warehouseId, targetKey, pathMapping,
                   outbound, backendResponse, thrown, response>>

\* index.js:99-109: the endpoint read returned
LookupEndpoint ==
    /\ pc = "endpoint"
    /\ LET key == EndpointKey(targetKey.v) IN
       /\ kvReads' = Append(kvReads, key)
       /\ targetEndpoint' = Get(key)
       /\ IF FalsyValue(Get(key))
          THEN Return(NoEndpointResponse(targetKey.v))
          ELSE pc' = "path" /\ UNCHANGED <<response, thrown>>
    /\ UNCHANGED <<request, kv, customerId, warehouseId, targetKey, pathMapping,
                   outbound, backendResponse>>

\* const destinationPath = pathMapping || sourcePath  (index.js:116)
DestinationPath(mapping, sourcePath) ==
    IF FalsyValue(mapping) THEN sourcePath ELSE mapping.v

\* new Request(targetUrl.toString(), { method, headers, body })  (index.js:122-126)
ForwardRequest(targetUrl) ==
    [url |-> Serialize(targetUrl), method |-> request.method, headers |-> request.headers,
     body |-> IF request.method = "POST" THEN request.body ELSE NoBody]

\* index.js:111-129: the path read returned; build the target URL and call fetch
LookupPathAndForward ==
    /\ pc = "path"
    /\ LET sourcePath == request.pathname
           key == PathKey(targetKey.v, sourcePath)
           targetUrl == NewURL(DestinationPath(Get(key), sourcePath) \o request.search,
                               targetEndpoint.v)
       IN
       /\ kvReads' = Append(kvReads, key)
       /\ pathMapping' = Get(key)
       /\ IF ~targetUrl.valid
          THEN Catch(InvalidURLError) /\ UNCHANGED outbound
          ELSE /\ outbound' = Append(outbound, ForwardRequest(targetUrl))
               /\ pc' = "fetch"
               /\ UNCHANGED <<response, thrown>>
    /\ UNCHANGED <<request, kv, customerId, warehouseId, targetKey, targetEndpoint,
                   backendResponse>>

\* index.js:129-136: fetch resolved; relay the backend's response
FetchReturns ==
    /\ pc = "fetch"
    /\ \E r \in BackendResponses :
         /\ backendResponse' = r
         /\ Return(Relay(r))
    /\ UNCHANGED <<request, kv, customerId, warehouseId, targetKey, targetEndpoint,
                   pathMapping, kvReads, outbound>>

\* a variant of FetchFails that calls fetch a second time before giving up
FetchFails_RetriesOnce ==
    /\ pc = "fetch"
    /\ IF Len(outbound) < 2
       THEN /\ outbound' = Append(outbound, outbound[1])
            /\ UNCHANGED <<pc, response, thrown>>
       ELSE Catch(FetchError) /\ UNCHANGED outbound
    /\ UNCHANGED <<request, kv, customerId, warehouseId, targetKey, targetEndpoint,
                   pathMapping, kvReads, backendResponse>>

\* index.js:129: fetch rejected (transport failure)
FetchFails ==
    /\ pc = "fetch"
    /\ Catch(FetchError)
    /\ UNCHANGED <<request, kv, customerId, warehouseId, targetKey, targetEndpoint,
                   pathMapping, kvReads, outbound, backendResponse>>

\* the key the handler is about to read
NextKey ==
    CASE pc = "routeW" -> WarehouseRouteKey(customerId, warehouseId)
      [] pc = "routeC" -> CustomerRouteKey(customerId)
      [] pc = "endpoint" -> EndpointKey(targetKey.v)
      [] pc = "path" -> PathKey(targetKey.v, request.pathname)

\* index.js:82, 87, 100, 113: env.ROUTING_KV.get rejected (store failure)
KVGetFails ==
    /\ pc \in {"routeW", "routeC", "endpoint", "path"}
    /\ kvReads' = Append(kvReads, NextKey)
    /\ Catch(KVError)
    /\ UNCHANGED <<request, kv, customerId, warehouseId, targetKey, targetEndpoint,
                   pathMapping, outbound, backendResponse>>

Next ==
    \/ ExtractParams
    \/ LookupWarehouseRoute
    \/ LookupCustomerRoute
    \/ LookupEndpoint
    \/ LookupPathAndForward
    \/ FetchReturns
    \/ FetchFails
    \/ KVGetFails

Spec == Init /\ [][Next]_vars

-----------------------------------------------------------------------------
(* What a request carries, read off the request itself *)

\* a POST whose body is a JSON object with a `data` string holding a JSON object
PostExtracts ==
    /\ request.method = "POST"
    /\ request.body.json = "object"
    /\ request.body.hasData
    /\ request.body.data = "object"

\* the request is a GET, or a POST that passes body and data parsing
Extracts == request.method = "GET" \/ PostExtracts

\* the customerId / warehouseId the request carries
Carried(name) ==
    IF request.method = "POST" THEN request.body[name]
    ELSE SearchParam(request.search, name)

Absent(x) == x \in {Undefined, Null, ""}

\* a read of a route key was the one that failed
RouteReadFailed ==
    /\ pc = "done"
    /\ thrown = KVError
    /\ kvReads[Len(kvReads)][1] = "route:"

\* target resolution (index.js:77-97) is over and no route read failed
ResolutionOver == pc \notin {"extract", "routeW", "routeC"} /\ ~RouteReadFailed

IsRouteKey(key) == key[1] = "route:"

\* the request was forwarded: fetch() was called
Forwarded == Len(outbound) = 1

\* the path of the outbound request's URL
OutboundPath == ParseAbsolute(outbound[1].url).pathname

-----------------------------------------------------------------------------
(* Claims *)

\* C1: when the store holds both route:C:W -> T1 and route:C -> T2, a GET or
\* POST request carrying customerId C and a non-empty warehouseId W resolves
\* targetKey = T1: route:C is never read, and the endpoint and path reads
\* that follow use endpoint:T1 and path:T1:<sourcePath>.
C1_WarehouseRouteWins ==
    \A c \in Customers, w \in Warehouses :
        ( /\ Extracts
          /\ Carried("customerId") = c
          /\ Carried("warehouseId") = w
          /\ Present(<<"route:", c, ":", w>>)
          /\ Present(<<"route:", c>>) )
        => LET T1 == kv[<<"route:", c, ":", w>>] IN
           /\ \A i \in 1..Len(kvReads) : kvReads[i] # <<"route:", c>>
           /\ ResolutionOver => targetKey = T1
           /\ Len(kvReads) >= 2 => kvReads[2] = <<"endpoint:">> \o T1.v
           /\ Len(kvReads) >= 3 => kvReads[3] = <<"path:">> \o T1.v \o <<":">> \o request.pathname

\* C1 witness: both route entries exist with different targets, the request
\* carries both ids, and the handler has called fetch with T1 resolved
C1_Witness ==
    /\ Extracts
    /\ Carried("customerId") = "C1"
    /\ Carried("warehouseId") = "W1"
    /\ kv[<<"route:", "C1", ":", "W1">>] = Value(<<"T1">>)
    /\ kv[<<"route:", "C1">>] = Value(<<"T2">>)
    /\ pc = "fetch"
    /\ targetKey = Value(<<"T1">>)

C3_OutboundPath ==
    Forwarded =>
        OutboundPath = ( IF Present(<<"path:">> \o targetKey.v \o <<":">> \o request.pathname)
                         THEN kv[<<"path:">> \o targetKey.v \o <<":">> \o request.pathname].v
                         ELSE request.pathname )

\* C4 (as stated): whenever customerId is absent or empty, whatever the
\* method, the response is 400 "Missing required parameter: customerId".
C4_AnyMethod ==
    (pc = "done" /\ Absent(Carried("customerId")))
    => /\ response.status = 400
       /\ Contains(response.body, <<"Missing required parameter: customerId">>)

\* C4 (amended): for every GET request, and every POST request that passes
\* body and data parsing, an absent or empty customerId is answered with
\* 400 "Missing required parameter: customerId", before any key-value read.
C4_ExtractedRequests ==
    (pc = "done" /\ Extracts /\ Absent(Carried("customerId")))
    => /\ response.status = 400
       /\ Contains(response.body, <<"Missing required parameter: customerId">>)
       /\ kvReads = <<>>

\* C4 witness: a GET with an empty customerId parameter was answered
C4_Witness ==
    /\ pc = "done"
    /\ request.method = "GET"
    /\ Carried("customerId") = ""
    /\ response.status = 400

\* C5: a request whose method is neither GET nor POST is answered with 405
\* and a message holding the method name and "not supported", and neither a
\* key-value read nor an outbound call is ever made for it.
C5_UnsupportedMethod ==
    request.method \notin {"GET", "POST"}
    => /\ kvReads = <<>>
       /\ outbound = <<>>
       /\ pc \in {"extract", "done"}
       /\ pc = "done" =>
            /\ response.status = 405
            /\ Contains(response.body, <<request.method, " not supported">>)

\* C5 witness: a DELETE request was answered
C5_Witness ==
    /\ request.method = "DELETE"
    /\ pc = "done"
    /\ response.status = 405

\* C6: every POST whose body parses as JSON (to any JSON value) without a
\* `data` key is answered with 400 "Missing data field".
C6_MissingDataField ==
    ( /\ pc = "done"
      /\ request.method = "POST"
      /\ request.body.json # "invalid"
      /\ ~(request.body.json = "object" /\ request.body.hasData) )
    => /\ response.status = 400
       /\ Contains(response.body, <<"Missing data field in request body">>)

\* C7: for a request with a non-empty customerId whose reads all returned,
\* if neither route key yields a value the response is 404 "No routing
\* found"; if a targetKey is resolved and its endpoint key is absent the
\* response is 404 "No endpoint found"; no outbound request is issued.
C7_LookupMisses ==
    (pc = "done" /\ thrown = NoError /\ Extracts /\ ~Absent(Carried("customerId")))
    => LET c == Carried("customerId")
           w == Carried("warehouseId")
       IN
       /\ ( /\ Absent(w) \/ ~Present(<<"route:", c, ":", w>>)
            /\ ~Present(<<"route:", c>>) )
          => /\ response.status = 404
             /\ Contains(response.body, <<"No routing found for customerId: ", c>>)
             /\ outbound = <<>>
       /\ ( targetKey.found /\ ~Present(<<"endpoint:">> \o targetKey.v) )
          => /\ response.status = 404
             /\ Contains(response.body, <<"No endpoint found for target: ">> \o targetKey.v)
             /\ outbound = <<>>

\* C7 witness: a target was resolved, its endpoint is missing, and the
\* handler has answered
C7_Witness ==
    /\ pc = "done"
    /\ thrown = NoError
    /\ targetKey.found
    /\ ~Present(<<"endpoint:">> \o targetKey.v)
    /\ response.status = 404

\* C8: whenever fetch returned a backend response, the response returned to
\* the caller has the backend's status, status text, headers and body.
C8_ResponseRelay ==
    backendResponse # NoResponse
    => /\ pc = "done"
       /\ response.status = backendResponse.status
       /\ response.statusText = backendResponse.statusText
       /\ response.headers = backendResponse.headers
       /\ response.body = backendResponse.body

\* C8 witness: the backend answered 404 and the handler has returned
C8_Witness ==
    /\ pc = "done"
    /\ backendResponse.status = 404
    /\ backendResponse.body = <<"missing">>

\* C9 (as stated): the outbound URL is the stored endpoint string followed
\* by the destination path followed by the inbound query string.
C9_Concatenation ==
    Forwarded =>
        outbound[1].url = targetEndpoint.v
                          \o DestinationPath(pathMapping, request.pathname)
                          \o request.search

\* C9 (amended): the outbound URL is destinationPath + query resolved against
\* the stored endpoint: scheme and host of the endpoint, then destinationPath,
\* then the inbound query string; the endpoint's own path is dropped, so the
\* URL is the plain concatenation when the endpoint is a bare origin.  (A
\* destinationPath starting with "//" supplies the host as well.)
C9_ResolvedAgainstEndpoint ==
    Forwarded =>
        LET dest == DestinationPath(pathMapping, request.pathname)
            e == targetEndpoint.v
        IN
        /\ e[1] = "https://"
        /\ IF Len(dest) >= 2 /\ dest[1] = "/" /\ dest[2] = "/"
           THEN outbound[1].url = <<"https://">> \o SubSeq(dest, 3, Len(dest)) \o request.search
           ELSE /\ outbound[1].url = <<"https://", e[2]>> \o dest \o request.search
                /\ Len(e) = 2 => outbound[1].url = e \o dest \o request.search

\* C9 witness: a request with a query string was forwarded to an endpoint
\* stored with a path component
C9_Witness ==
    /\ Forwarded
    /\ targetEndpoint.v = <<"https://", "api1.example", "/", "v1">>
    /\ request.search # <<>>
    /\ request.pathname = <<"/", "api">>

\* C10: a failure at any step (a store read, the target URL, the outbound
\* call, an unexpected exception) is answered with status 500 and a JSON body
\* holding the failure's message; the handler is answered exactly when it is
\* done, and it can always take a step until then.
C10_CatchAll ==
    /\ thrown # NoError =>
         /\ pc = "done"
         /\ response.status = 500
         /\ response.headers = "Content-Type: application/json"
         /\ Contains(response.body, <<"Internal server error">>)
         /\ Contains(response.body, <<thrown>>)
    /\ (pc = "done") <=> (response # NoResponse)
    /\ pc = "done" \/ ENABLED Next

\* C10 witness: the outbound call failed and the handler has answered
C10_Witness ==
    /\ pc = "done"
    /\ thrown = "Network connection lost"
    /\ Len(outbound) = 1
    /\ response.status = 500

C12_LookupOrder ==
    \A i \in 1..Len(kvReads) :
        /\ kvReads[i][1] = "endpoint:" =>
             /\ i > 1
             /\ kvReads[i - 1][1] = "route:"
             /\ Present(kvReads[i - 1])
             /\ kvReads[i] = <<"endpoint:">> \o kv[kvReads[i - 1]].v
             /\ targetKey = kv[kvReads[i - 1]]
        /\ kvReads[i][1] = "path:" =>
             /\ i > 1
             /\ kvReads[i - 1][1] = "endpoint:"
             /\ Present(kvReads[i - 1])
             /\ kvReads[i] = <<"path:">> \o Tail(kvReads[i - 1]) \o <<":">> \o request.pathname
             /\ targetEndpoint = kv[kvReads[i - 1]]

\* C12 witness: a warehouse-specific miss, the customer-level route, the
\* endpoint and the path were read in that order
C12_Witness ==
    /\ Len(kvReads) = 4
    /\ kvReads[2][1] = "route:"
    /\ kvReads[3][1] = "endpoint:"
    /\ kvReads[4][1] = "path:"
    /\ pathMapping.found

\* C13: the handler calls fetch at most once, and only with a targetKey and
\* an endpoint found by the reads before it; no key is read twice; once a
\* read or the outbound call has failed, or a lookup miss has been answered,
\* the handler is done and takes no further step.
C13_NoRetries ==
    /\ Len(outbound) <= 1
    /\ Forwarded =>
         /\ targetKey.found /\ targetKey.v # <<>>
         /\ targetEndpoint.found /\ targetEndpoint.v # <<>>
         /\ \E i \in 1..Len(kvReads) : kvReads[i] = <<"endpoint:">> \o targetKey.v
    /\ \A i, j \in 1..Len(kvReads) : i # j => kvReads[i] # kvReads[j]
    /\ thrown # NoError => pc = "done"
    /\ (backendResponse = NoResponse /\ response.status = 404) =>
         (pc = "done" /\ outbound = <<>>)
    /\ pc = "done" => ~ENABLED Next

\* C13 witness: the outbound call failed after four reads and the handler
\* answered without calling fetch again
C13_Witness ==
    /\ pc = "done"
    /\ thrown = "Network connection lost"
    /\ Len(kvReads) = 4
    /\ outbound # <<>>

====
